---------------------------- MODULE Spec2Model ----------------------------
(***************************************************************************)
(* Model of plugins/OpenAIAPI/main.py: the OpenAIAPI plugin object, its    *)
(* POST /v1/chat/completions handler and its lifecycle hooks.              *)
(*                                                                         *)
(* Two specifications share the variables:                                 *)
(*   Spec          - one inbound chat-completion request, drawn with the   *)
(*                   configuration and the upstream's behaviour, handled   *)
(*                   by create_chat_completion;                            *)
(*   SpecLifecycle - construction, on_enable / on_disable called by the    *)
(*                   host, and the background server threads.              *)
(*                                                                         *)
(* Text is a sequence of one-character strings, so that str.replace and    *)
(* f-string concatenation are computed, not assumed.                       *)
(*                                                                         *)
(* PluginBase (utils/plugin_base.py) is outside this file: its __init__,   *)
(* on_enable and on_disable are taken to touch none of the attributes      *)
(* modelled here, and in particular not to define `server`.                *)
(***************************************************************************)
EXTENDS Integers, Sequences, FiniteSets, TLC

VARIABLES
    self,        \* the plugin object: attribute name -> value (an unset attribute is not in DOMAIN self)
    init_failed, \* __init__ took its except branch (it logged the initialisation failure)
    pc,          \* Spec: "pending" | "done"; SpecLifecycle: "idle" | "disable_set"
    request,     \* Spec: the inbound request and what the upstream will do with the forwarded one
    outbound,    \* Spec: the requests posted upstream, in order
    reply,       \* Spec: the responses returned to the caller, in order
    threads,     \* SpecLifecycle: the Thread objects created, in order, each with the
                 \* uvicorn.Server it creates: [pc, should_exit]
    lastCall     \* SpecLifecycle: the host's latest completed hook call and how it ended

vars == <<self, init_failed, pc, request, outbound, reply, threads, lastCall>>

None == "None"

\* None where the other values are object references (1, 2, ...)
NoObject == 0

----------------------------------------------------------------------------
(* Bounds *)

\* an inbound Authorization value is a concatenation of at most MaxPieces pieces
MaxPieces == 3
\* distinct values a caller may give to one body field
NumCallerValues == 2
\* on_enable calls that get as far as creating a Thread object
MaxThreads == 2
\* admins configured in main_config.toml
MaxAdmins == 2

----------------------------------------------------------------------------
(* Text *)

Bearer == <<"B", "e", "a", "r", "e", "r", " ">>

\* str.replace(old, ""): every non-overlapping occurrence of old, scanning from
\* the left, is removed
RECURSIVE Replace(_, _)
Replace(s, old) ==
    IF Len(s) < Len(old) THEN s
    ELSE IF SubSeq(s, 1, Len(old)) = old
         THEN Replace(SubSeq(s, Len(old) + 1, Len(s)), old)
         ELSE <<Head(s)>> \o Replace(Tail(s), old)

\* request.headers.get("Authorization", "")
HeaderGet(headers, name, default) ==
    IF name \in DOMAIN headers THEN headers[name] ELSE default

\* api_key = request.headers.get("Authorization", "").replace("Bearer ", "")
CallerApiKey(headers) == Replace(HeaderGet(headers, "Authorization", <<>>), Bearer)

\* dict item assignment d[k] = v
SetItem(d, k, v) == [x \in DOMAIN d \cup {k} |-> IF x = k THEN v ELSE d[x]]

\* a literal the code never takes apart is one atom of text
AppJson == <<"application/json">>

\* headers = {"Content-Type": "application/json"}, then Authorization from the
\* configured key if it is truthy, else from the caller's key if it is truthy
BuildHeadersCallerFirst(obj, api_key) ==
    LET headers == [h \in {"Content-Type"} |-> AppJson]
    IN  IF api_key # <<>> THEN SetItem(headers, "Authorization", Bearer \o api_key)
        ELSE IF obj.api_key # <<>>
             THEN SetItem(headers, "Authorization", Bearer \o obj.api_key)
             ELSE headers

BuildHeaders(obj, api_key) ==
    LET headers == [h \in {"Content-Type"} |-> AppJson]
    IN  IF obj.api_key # <<>>
        THEN SetItem(headers, "Authorization", Bearer \o obj.api_key)
        ELSE IF api_key # <<>>
             THEN SetItem(headers, "Authorization", Bearer \o api_key)
             ELSE headers

----------------------------------------------------------------------------
(* JSON values and JSON text *)

\* A JSON value is [type, fields, items]: a dict (fields a function on its
\* keys), a list (items a sequence), a str (items a sequence of words, each
\* word a whole field name or a word containing none) or a scalar (null,
\* number, bool).
NoFields == [k \in {} |-> 0]

JDict(f) == [type |-> "dict", fields |-> f, items |-> <<>>]
JList(q) == [type |-> "list", fields |-> NoFields, items |-> q]
JStr(w) == [type |-> "str", fields |-> NoFields, items |-> w]
JNull == [type |-> "null", fields |-> NoFields, items |-> <<>>]

\* JSON text: the value it encodes and how it is laid out; text that is not
\* JSON encodes nothing
JsonText(value, layout) == [wellformed |-> TRUE, json |-> value, layout |-> layout]
NotJsonText == [wellformed |-> FALSE, json |-> JNull, layout |-> "raw"]

\* json.dumps(obj): default separators (", ", ": ")
json_dumps(value) == JsonText(value, "spaced")

\* JSONResponse.render: compact separators
render(value) == JsonText(value, "compact")

\* `key in body` raises TypeError unless body is a dict, a list or a str
Iterable(body) == body.type \in {"dict", "list", "str"}

Contains(key, body) ==
    IF body.type = "dict" THEN key \in DOMAIN body.fields
    ELSE \E i \in 1..Len(body.items) : body.items[i] = key

\* one `if key not in body [and cond]: body[key] = value` statement, on the
\* running result [fault, body] of the statements before it
ApplyDefault(res, key, cond, value) ==
    IF res.fault # "none" THEN res
    ELSE IF ~Iterable(res.body) THEN [res EXCEPT !.fault = "TypeError"]
    ELSE IF ~Contains(key, res.body) /\ cond
         THEN IF res.body.type = "dict"
              THEN [res EXCEPT !.body = JDict(SetItem(res.body.fields, key, value))]
              ELSE [res EXCEPT !.fault = "TypeError"]
         ELSE res

DefaultedKeys ==
    {"model", "max_tokens", "temperature", "top_p", "frequency_penalty", "presence_penalty"}

ApplyDefaultsOverwriteModel(obj, body) ==
    LET r0 == [fault |-> "none", body |-> body]
        r1 == IF Iterable(body) /\ body.type = "dict"
              THEN [r0 EXCEPT !.body = JDict(SetItem(body.fields, "model", obj.default_model))]
              ELSE ApplyDefault(r0, "model", TRUE, obj.default_model)
        r2 == ApplyDefault(r1, "max_tokens", obj.max_tokens > 0, obj.max_tokens)
        r3 == ApplyDefault(r2, "temperature", TRUE, obj.temperature)
        r4 == ApplyDefault(r3, "top_p", TRUE, obj.top_p)
        r5 == ApplyDefault(r4, "frequency_penalty", TRUE, obj.frequency_penalty)
    IN  ApplyDefault(r5, "presence_penalty", TRUE, obj.presence_penalty)

\* the six statements that fill absent fields, in source order
ApplyDefaults(obj, body) ==
    LET r0 == [fault |-> "none", body |-> body]
        r1 == ApplyDefault(r0, "model", TRUE, obj.default_model)
        r2 == ApplyDefault(r1, "max_tokens", obj.max_tokens > 0, obj.max_tokens)
        r3 == ApplyDefault(r2, "temperature", TRUE, obj.temperature)
        r4 == ApplyDefault(r3, "top_p", TRUE, obj.top_p)
        r5 == ApplyDefault(r4, "frequency_penalty", TRUE, obj.frequency_penalty)
    IN  ApplyDefault(r5, "presence_penalty", TRUE, obj.presence_penalty)

----------------------------------------------------------------------------
(* The upstream answer and its relay *)

\* aiohttp's response.json(): ContentTypeError unless the Content-Type is
\* application/json, JSONDecodeError unless the text is JSON
response_json(response) ==
    IF response.content_type # "application/json"
    THEN [fault |-> "ContentTypeError", value |-> JNull]
    ELSE IF ~response.text.wellformed
         THEN [fault |-> "JSONDecodeError", value |-> JNull]
         ELSE [fault |-> "none", value |-> response.text.json]

RelayAlways200(response, value) ==
    [status_code |-> 200, media_type |-> "application/json", content |-> json_dumps(value)]

\* Response(content=json.dumps(response_json), media_type=..., status_code=response.status)
Relay(response, value) ==
    [status_code |-> response.status,
     media_type |-> "application/json",
     content |-> json_dumps(value)]

\* the fixed error envelope of the except branch
Envelope(fault) ==
    JDict([error |-> [message |-> <<"request handling failed: ", fault>>,
                      type |-> "server_error",
                      code |-> "internal_server_error"]])

ErrorResponse(fault) ==
    [status_code |-> 500, media_type |-> "application/json",
     content |-> render(Envelope(fault))]

CaughtOnlyValueError(fault) == fault \in {"JSONDecodeError", "ContentTypeError"}

\* `except Exception`: every fault of the try block is an Exception subclass
Caught(fault) == TRUE

----------------------------------------------------------------------------
(* Construction: OpenAIAPI.__init__ *)

EmptyDict == [x \in {} |-> None]

Merge(f, g) == [x \in DOMAIN f \cup DOMAIN g |-> IF x \in DOMAIN g THEN g[x] ELSE f[x]]

\* dict.get(key, default)
Get(d, key, default) == IF key \in DOMAIN d THEN d[key] ELSE default

\* the attributes assigned from the plugin's [OpenAIAPI] table, each with the
\* default the code gives it
PluginAttrs(plugin_config) ==
    [enable            |-> Get(plugin_config, "enable", FALSE),
     api_key           |-> Get(plugin_config, "api-key", <<>>),
     base_url          |-> Get(plugin_config, "base-url", <<"https://api.openai.com/v1">>),
     default_model     |-> Get(plugin_config, "default-model", "gpt-3.5-turbo"),
     available_models  |-> Get(plugin_config, "available-models", <<"gpt-3.5-turbo">>),
     port              |-> Get(plugin_config, "port", 8100),
     host              |-> Get(plugin_config, "host", "0.0.0.0"),
     command_tip       |-> Get(plugin_config, "command-tip", <<>>),
     http_proxy        |-> Get(plugin_config, "http-proxy", <<>>),
     price             |-> Get(plugin_config, "price", 0),
     admin_ignore      |-> Get(plugin_config, "admin_ignore", TRUE),
     whitelist_ignore  |-> Get(plugin_config, "whitelist_ignore", TRUE),
     max_tokens        |-> Get(plugin_config, "max_tokens", 4096),
     temperature       |-> Get(plugin_config, "temperature", "0.7"),
     top_p             |-> Get(plugin_config, "top_p", "1.0"),
     frequency_penalty |-> Get(plugin_config, "frequency_penalty", "0.0"),
     presence_penalty  |-> Get(plugin_config, "presence_penalty", "0.0")]

\* the statements of the try block that can raise, in source order; "none" when
\* none does
FailPoints == <<"main_config", "config", "db", "app", "routes", "none">>

Before(a, b) ==
    \E i, j \in 1..Len(FailPoints) : FailPoints[i] = a /\ FailPoints[j] = b /\ i < j

\* the attributes set when the try block is left, normally or at failAt
TryInit(failAt, admins, plugin_config) ==
    LET s1 == IF Before("config", failAt) THEN PluginAttrs(plugin_config) ELSE EmptyDict
        s2 == IF Before("db", failAt)
              THEN Merge(s1, [db |-> "XYBotDB", admins |-> admins]) ELSE s1
        s3 == IF Before("app", failAt)
              THEN Merge(s2, [app |-> "FastAPI", server |-> NoObject, server_thread |-> NoObject])
              ELSE s2
    IN  s3

ExceptInitKeepsEnable(obj) == obj

\* except Exception: self.enable = False
ExceptInit(obj) == SetItem(obj, "enable", FALSE)

\* the object __init__ leaves behind
Construct(failAt, admins, plugin_config) ==
    IF failAt = "none" THEN TryInit(failAt, admins, plugin_config)
    ELSE ExceptInit(TryInit(failAt, admins, plugin_config))

----------------------------------------------------------------------------
(* POST /v1/chat/completions *)

\* the try block: the fault it raised ("none" when it returned), the requests
\* it posted upstream and the responses it returned
TryCompletion(obj, req) ==
    IF ~req.body.wellformed
    THEN [fault |-> "JSONDecodeError", outbound |-> <<>>, reply |-> <<>>]
    ELSE
    LET api_key == CallerApiKey(req.headers)
        headers == BuildHeaders(obj, api_key)
        proxy   == IF obj.http_proxy # <<>> THEN obj.http_proxy ELSE <<None>>
        merged  == ApplyDefaults(obj, req.body.json)
        post    == [url     |-> obj.base_url \o <<"/chat/completions">>,
                    headers |-> headers,
                    json    |-> merged.body,
                    proxy   |-> proxy]
        parsed  == response_json(req.upstream)
    IN  IF merged.fault # "none"
        THEN [fault |-> merged.fault, outbound |-> <<>>, reply |-> <<>>]
        ELSE IF req.upstream.kind # "response"
        THEN [fault |-> req.upstream.kind, outbound |-> <<post>>, reply |-> <<>>]
        ELSE IF parsed.fault # "none"
        THEN [fault |-> parsed.fault, outbound |-> <<post>>, reply |-> <<>>]
        ELSE [fault |-> "none", outbound |-> <<post>>,
              reply |-> <<Relay(req.upstream, parsed.value)>>]

\* the whole handler: the try block, then the except branch for what it raised
create_chat_completion ==
    /\ pc = "pending"
    /\ LET r == TryCompletion(self, request)
       IN  /\ outbound' = r.outbound
           /\ reply' = IF r.fault = "none" THEN r.reply
                       ELSE IF Caught(r.fault) THEN <<ErrorResponse(r.fault)>>
                       ELSE <<>>
    /\ pc' = "done"
    /\ UNCHANGED <<self, init_failed, request, threads, lastCall>>

----------------------------------------------------------------------------
(* The requests, configurations and upstream behaviours drawn *)

Pieces == {Bearer, <<"s">>, <<"k">>}

RECURSIVE Concats(_)
Concats(n) ==
    IF n = 0 THEN {<<>>}
    ELSE Concats(n - 1) \cup {p \o c : p \in Pieces, c \in Concats(n - 1)}

NoHeaders == [h \in {} |-> <<>>]

InboundHeaders ==
    {NoHeaders} \cup {[h \in {"Authorization"} |-> a] : a \in Concats(MaxPieces)}

BodyKeys == DefaultedKeys \cup {"messages"}

CallerValue(key, i) ==
    IF key = "max_tokens" THEN 100 * i
    ELSE IF key = "model" THEN <<"gpt-4", "gpt-4o", "o1", "o3">>[i]
    ELSE <<"0.1", "0.2", "0.3", "0.4">>[i]

DictBodies ==
    UNION {{JDict([k \in S |-> CallerValue(k, pick[k])]) : pick \in [S -> 1..NumCallerValues]}
           : S \in SUBSET BodyKeys}

KeyList == <<"model", "max_tokens", "temperature", "top_p", "frequency_penalty",
             "presence_penalty">>

OtherBodies ==
    {JNull, JList(<<>>), JList(KeyList), JList(Tail(KeyList)),
     JList(<<"model">> \o Tail(Tail(KeyList))), JStr(<<"hello">>), JStr(KeyList)}

InboundBodies ==
    {JsonText(v, "compact") : v \in DictBodies \cup OtherBodies} \cup {NotJsonText}

UpstreamValues ==
    {JDict([error |-> [message |-> <<"rate limited">>,
                       type |-> "rate_limit_error",
                       code |-> "rate_limit_exceeded"]]),
     JDict([id |-> "chatcmpl-1"])}

UpstreamTexts ==
    {JsonText(v, l) : v \in UpstreamValues, l \in {"compact", "spaced"}} \cup {NotJsonText}

UpstreamResponses ==
    [kind : {"response"}, status : {200, 429, 500, 502},
     content_type : {"application/json", "text/html"}, text : UpstreamTexts]

UpstreamFailures ==
    [kind : {"ClientConnectorError", "TimeoutError"}, status : {0},
     content_type : {"none"}, text : {NotJsonText}]

OkUpstream ==
    [kind |-> "response", status |-> 200, content_type |-> "application/json",
     text |-> JsonText(JDict([id |-> "chatcmpl-1"]), "compact")]

SimpleBody == JsonText(JDict([messages |-> "0.1"]), "compact")

FewHeaders == {NoHeaders, [h \in {"Authorization"} |-> Bearer \o <<"s">>]}

FewBodies == {SimpleBody, JsonText(JDict([model |-> "gpt-4", max_tokens |-> 100]), "compact")}

\* every header with a few bodies, every body without a header, every
\* upstream behaviour with a few of both
Requests ==
    [headers : InboundHeaders, body : FewBodies \cup {NotJsonText}, upstream : {OkUpstream}]
    \cup [headers : {NoHeaders}, body : InboundBodies, upstream : {OkUpstream}]
    \cup [headers : FewHeaders, body : FewBodies,
          upstream : UpstreamResponses \cup UpstreamFailures]

ConfiguredKeys == {<<>>, <<"c", "f", "g">>}

ConfiguredMaxTokens == {-1, 0, 2000}

\* [OpenAIAPI] tables of config.toml for the forwarding path
HandlerConfigs ==
    {[k \in {"enable"} |-> TRUE]}
    \cup {[enable |-> TRUE, max_tokens |-> m] : m \in ConfiguredMaxTokens}
    \cup {Merge([enable |-> TRUE, max_tokens |-> m], [k \in {"api-key"} |-> a])
          : m \in ConfiguredMaxTokens, a \in ConfiguredKeys}

NoCall ==
    [hook |-> "none", raised |-> "none", bot |-> FALSE, started |-> FALSE, attempts |-> <<>>]

Init ==
    /\ \E c \in HandlerConfigs : self = Construct("none", <<>>, c)
    /\ init_failed = FALSE
    /\ pc = "pending"
    /\ request \in Requests
    /\ outbound = <<>>
    /\ reply = <<>>
    /\ threads = <<>>
    /\ lastCall = NoCall

Next == create_chat_completion

Spec == Init /\ [][Next]_vars

----------------------------------------------------------------------------
(* Claims about POST /v1/chat/completions, checked under Spec *)

HasAuthorization(headers) == "Authorization" \in DOMAIN headers

Forwarded == pc = "done" /\ Len(outbound) = 1

\* C1: whenever the configured api-key is non-empty, the request posted
\* upstream carries Authorization = "Bearer " + configured api-key, whatever
\* Authorization header (none, empty, any token) the caller sent.
C1_ConfiguredKeyOverrides ==
    (Forwarded /\ self.api_key # <<>>) =>
        /\ HasAuthorization(outbound[1].headers)
        /\ outbound[1].headers["Authorization"] = Bearer \o self.api_key

\* C1 witness: a caller's own bearer token was replaced by the configured key.
C1_Witness ==
    /\ Forwarded
    /\ self.api_key # <<>>
    /\ HasAuthorization(request.headers)
    /\ request.headers["Authorization"] = Bearer \o <<"s">>
    /\ outbound[1].headers["Authorization"] = Bearer \o self.api_key

\* C2 (as claimed): with no configured api-key, a caller's "Bearer X" (X not
\* empty) is forwarded as "Bearer X" for that same X, and a request without
\* Authorization is forwarded without Authorization.
C2_CallerKeyMirrored ==
    (Forwarded /\ self.api_key = <<>>) =>
        IF HasAuthorization(request.headers)
        THEN LET a == request.headers["Authorization"]
             IN  (Len(a) > Len(Bearer) /\ SubSeq(a, 1, Len(Bearer)) = Bearer) =>
                     /\ HasAuthorization(outbound[1].headers)
                     /\ outbound[1].headers["Authorization"] = a
        ELSE ~HasAuthorization(outbound[1].headers)

\* the configured default of a defaulted field
ConfiguredDefault(key) ==
    CASE key = "model" -> self.default_model
      [] key = "max_tokens" -> self.max_tokens
      [] key = "temperature" -> self.temperature
      [] key = "top_p" -> self.top_p
      [] key = "frequency_penalty" -> self.frequency_penalty
      [] key = "presence_penalty" -> self.presence_penalty

\* C3: the body posted upstream keeps every field of the caller's JSON object
\* with the caller's value, and adds exactly the absent defaulted fields with
\* their configured values, max_tokens only when the configured one is > 0.
C3_OnlyAbsentFieldsFilled ==
    (Forwarded /\ request.body.json.type = "dict") =>
        LET in  == request.body.json.fields
            out == outbound[1].json.fields
            add == (DefaultedKeys \ {"max_tokens"})
                   \cup (IF self.max_tokens > 0 THEN {"max_tokens"} ELSE {})
        IN  /\ outbound[1].json.type = "dict"
            /\ DOMAIN out = DOMAIN in \cup add
            /\ \A k \in DOMAIN in : out[k] = in[k]
            /\ \A k \in DOMAIN out \ DOMAIN in : out[k] = ConfiguredDefault(k)

\* C3 witness: the caller gave model but not max_tokens, and the forwarded body
\* has the caller's model and the configured max_tokens.
C3_Witness ==
    /\ Forwarded
    /\ request.body.json.type = "dict"
    /\ DOMAIN request.body.json.fields = {"model", "messages"}
    /\ self.max_tokens = 2000
    /\ outbound[1].json.fields["model"] = "gpt-4"
    /\ outbound[1].json.fields["max_tokens"] = 2000

UpstreamAnswered == Forwarded /\ request.upstream.kind = "response"

ParsesAsJson(response) ==
    response.content_type = "application/json" /\ response.text.wellformed

\* the same body: the same JSON value, or the same raw text when it is not JSON
SameBody(a, b) ==
    /\ a.wellformed = b.wellformed
    /\ IF a.wellformed THEN a.json = b.json ELSE a = b

\* C4 (as claimed): whatever status and body the upstream answers with, the
\* caller gets that status and that body.
C4_AnyAnswerRelayed ==
    UpstreamAnswered =>
        /\ Len(reply) = 1
        /\ reply[1].status_code = request.upstream.status
        /\ SameBody(reply[1].content, request.upstream.text)

\* C4 (amended): an upstream answer that aiohttp parses as JSON is relayed
\* with its status and its JSON value; any other upstream answer becomes the
\* gateway's 500 envelope.
C4_JsonAnswerRelayed ==
    UpstreamAnswered =>
        /\ Len(reply) = 1
        /\ IF ParsesAsJson(request.upstream)
           THEN /\ reply[1].status_code = request.upstream.status
                /\ reply[1].content.wellformed
                /\ reply[1].content.json = request.upstream.text.json
           ELSE /\ reply[1].status_code = 500
                /\ reply[1].content.json.type = "dict"
                /\ reply[1].content.json.fields["error"]["type"] = "server_error"

\* C4 witness: an upstream 429 with a JSON body came back as 429.
C4_Witness ==
    /\ UpstreamAnswered
    /\ request.upstream.status = 429
    /\ ParsesAsJson(request.upstream)
    /\ Len(reply) = 1
    /\ reply[1].status_code = 429
    /\ reply[1].content.json = request.upstream.text.json

IsEnvelope(text) ==
    /\ text.wellformed
    /\ text.json.type = "dict"
    /\ DOMAIN text.json.fields = {"error"}
    /\ DOMAIN text.json.fields["error"] = {"message", "type", "code"}
    /\ text.json.fields["error"]["message"] \in Seq(STRING)
    /\ text.json.fields["error"]["type"] = "server_error"
    /\ text.json.fields["error"]["code"] = "internal_server_error"

\* the inputs on which the try block raises
MalformedInbound == ~request.body.wellformed

NotAnObject ==
    /\ request.body.wellformed
    /\ \/ request.body.json.type = "null"
       \/ /\ request.body.json.type \in {"list", "str"}
          /\ \E i \in 1..Len(KeyList) :
                /\ ~Contains(KeyList[i], request.body.json)
                /\ KeyList[i] = "max_tokens" => self.max_tokens > 0

UpstreamFault ==
    /\ Len(outbound) = 1
    /\ \/ request.upstream.kind # "response"
       \/ ~ParsesAsJson(request.upstream)

\* C5: every handled request is answered, and whenever the handling raised
\* (malformed inbound JSON, a non-object body, a network failure, a timeout, a
\* malformed upstream answer) the answer is HTTP 500 with the fixed envelope.
C5_FaultsBecomeEnvelope ==
    pc = "done" =>
        /\ Len(reply) = 1
        /\ (MalformedInbound \/ NotAnObject \/ UpstreamFault) =>
              /\ reply[1].status_code = 500
              /\ reply[1].media_type = "application/json"
              /\ IsEnvelope(reply[1].content)

\* C5 witness: a timeout of the upstream call was answered with the envelope.
C5_Witness ==
    /\ pc = "done"
    /\ request.upstream.kind = "TimeoutError"
    /\ Len(outbound) = 1
    /\ Len(reply) = 1
    /\ reply[1].status_code = 500
    /\ IsEnvelope(reply[1].content)

----------------------------------------------------------------------------
(* Lifecycle: on_enable, on_disable and the background server thread *)

\* Reading an attribute __init__ never assigned raises AttributeError.
HasAttr(obj, name) == name \in DOMAIN obj

NotifyAdminsAbortOnFailure(admins, failing) ==
    LET firstBad == IF \E i \in 1..Len(admins) : admins[i] \in failing
                    THEN CHOOSE i \in 1..Len(admins) :
                            /\ admins[i] \in failing
                            /\ \A j \in 1..(i - 1) : admins[j] \notin failing
                    ELSE Len(admins)
    IN  [i \in 1..firstBad |-> [admin |-> admins[i], ok |-> admins[i] \notin failing]]

\* for admin in self.admins: try: await bot.send_text_message(admin, tip)
\* except Exception: log.  The sends attempted, in order; `failing` are the
\* admins whose send raises.
NotifyAdmins(admins, failing) ==
    [i \in 1..Len(admins) |-> [admin |-> admins[i], ok |-> admins[i] \notin failing]]

NewThread(startOk) ==
    [pc |-> IF startOk THEN "started" ELSE "unstarted", should_exit |-> FALSE]

\* on_enable(bot): startOk is whether Thread.start() returned (it raises
\* RuntimeError when no thread can be started)
on_enable(bot, startOk, failing) ==
    /\ pc = "idle"
    /\ IF ~HasAttr(self, "enable")
       THEN /\ lastCall' = [hook |-> "on_enable", raised |-> "AttributeError",
                            bot |-> bot # None, started |-> FALSE, attempts |-> <<>>]
            /\ UNCHANGED <<self, threads>>
       ELSE IF ~self.enable
       THEN /\ lastCall' = [hook |-> "on_enable", raised |-> "none",
                            bot |-> bot # None, started |-> FALSE, attempts |-> <<>>]
            /\ UNCHANGED <<self, threads>>
       ELSE /\ Len(threads) < MaxThreads
            /\ self' = SetItem(self, "server_thread", Len(threads) + 1)
            /\ threads' = Append(threads, NewThread(startOk))
            /\ lastCall' =
                  [hook |-> "on_enable", raised |-> "none", bot |-> bot # None,
                   started |-> startOk,
                   attempts |-> IF startOk /\ bot # None /\ self.command_tip # <<>>
                                THEN NotifyAdmins(self.admins, failing)
                                ELSE <<>>]
    /\ UNCHANGED <<init_failed, pc, request, outbound, reply>>

\* on_disable, `if self.server:`
on_disable_check ==
    /\ pc = "idle"
    /\ IF ~HasAttr(self, "server")
       THEN /\ lastCall' = [NoCall EXCEPT !.hook = "on_disable", !.raised = "AttributeError"]
            /\ pc' = pc
       ELSE IF self.server = NoObject
       THEN /\ lastCall' = [NoCall EXCEPT !.hook = "on_disable"]
            /\ pc' = pc
       ELSE /\ pc' = "disable_set"
            /\ UNCHANGED lastCall
    /\ UNCHANGED <<self, init_failed, request, outbound, reply, threads>>

\* on_disable, `self.server.should_exit = True`: self.server is read again
on_disable_set ==
    /\ pc = "disable_set"
    /\ threads' = [threads EXCEPT ![self.server].should_exit = TRUE]
    /\ lastCall' = [NoCall EXCEPT !.hook = "on_disable"]
    /\ pc' = "idle"
    /\ UNCHANGED <<self, init_failed, request, outbound, reply>>

\* _start_server in thread t: self.server = uvicorn.Server(config)
start_server_create(t) ==
    /\ threads[t].pc = "started"
    /\ threads' = [threads EXCEPT ![t].pc = "created"]
    /\ self' = SetItem(self, "server", t)
    /\ UNCHANGED <<init_failed, pc, request, outbound, reply, lastCall>>

\* host:port is held by a server that is serving
PortHeld == \E u \in 1..Len(threads) : threads[u].pc = "serving"

\* await self.server.serve(): the listening socket is bound
serve_bind(t) ==
    /\ threads[t].pc = "created"
    /\ ~PortHeld
    /\ threads' = [threads EXCEPT ![t].pc = "serving"]
    /\ UNCHANGED <<self, init_failed, pc, request, outbound, reply, lastCall>>

\* await self.server.serve(): the address is in use, the thread ends
serve_bind_failed(t) ==
    /\ threads[t].pc = "created"
    /\ PortHeld
    /\ threads' = [threads EXCEPT ![t].pc = "bind_failed"]
    /\ UNCHANGED <<self, init_failed, pc, request, outbound, reply, lastCall>>

\* the serving loop sees should_exit: the listening socket is closed, requests
\* in flight are awaited
serve_close(t) ==
    /\ threads[t].pc = "serving"
    /\ threads[t].should_exit
    /\ threads' = [threads EXCEPT ![t].pc = "closing"]
    /\ UNCHANGED <<self, init_failed, pc, request, outbound, reply, lastCall>>

\* serve() returns and the thread ends
serve_exit(t) ==
    /\ threads[t].pc = "closing"
    /\ threads' = [threads EXCEPT ![t].pc = "exited"]
    /\ UNCHANGED <<self, init_failed, pc, request, outbound, reply, lastCall>>

\* main_config.toml's XYBot.admins
AdminLists == {[i \in 1..n |-> i] : n \in 0..MaxAdmins}

\* [OpenAIAPI] tables of config.toml for the lifecycle
LifecycleConfigs ==
    {EmptyDict}
    \cup {[k \in {"enable"} |-> e] : e \in BOOLEAN}
    \cup {Merge([k \in {"enable"} |-> e], [k \in {"command-tip"} |-> <<"tip">>])
          : e \in BOOLEAN}

InitLifecycle ==
    /\ \E failAt \in {FailPoints[i] : i \in 1..Len(FailPoints)},
          admins \in AdminLists, c \in LifecycleConfigs :
          /\ self = Construct(failAt, admins, c)
          /\ init_failed = (failAt # "none")
    /\ pc = "idle"
    /\ request = [headers |-> NoHeaders, body |-> NotJsonText, upstream |-> OkUpstream]
    /\ outbound = <<>>
    /\ reply = <<>>
    /\ threads = <<>>
    /\ lastCall = NoCall

NextLifecycle ==
    \/ \E bot \in {None, "bot"}, startOk \in BOOLEAN, failing \in SUBSET (1..MaxAdmins) :
          on_enable(bot, startOk, failing)
    \/ on_disable_check
    \/ on_disable_set
    \/ \E t \in 1..Len(threads) : start_server_create(t)
    \/ \E t \in 1..Len(threads) : serve_bind(t)
    \/ \E t \in 1..Len(threads) : serve_bind_failed(t)
    \/ \E t \in 1..Len(threads) : serve_close(t)
    \/ \E t \in 1..Len(threads) : serve_exit(t)

SpecLifecycle == InitLifecycle /\ [][NextLifecycle]_vars

----------------------------------------------------------------------------
(* Claims about the lifecycle, checked under SpecLifecycle *)

ThreadIds == 1..Len(threads)

\* no server thread was ever started
NeverStarted == \A t \in ThreadIds : threads[t].pc = "unstarted"

\* C6 (as claimed): an on_disable called while no server was ever started
\* does not raise, whatever preceded it: nothing, an on_enable of a disabled
\* gateway, or a construction whose configuration load failed.
C6_DisableNeverThrows ==
    (lastCall.hook = "on_disable" /\ NeverStarted) => lastCall.raised = "none"

AllAttrs == DOMAIN Construct("none", <<>>, EmptyDict)

\* C7: after a construction that failed, the object exists with enable = false,
\* on_enable returns without creating or starting a thread and without
\* notifying anyone; and an enabled gateway has every attribute populated.
C7_FailedInitStaysDisabled ==
    /\ HasAttr(self, "enable")
    /\ init_failed =>
          /\ self.enable = FALSE
          /\ threads = <<>>
          /\ lastCall.hook = "on_enable" =>
                (lastCall.raised = "none" /\ ~lastCall.started /\ lastCall.attempts = <<>>)
    /\ self.enable = TRUE => DOMAIN self = AllAttrs

\* C7 witness: on_enable was called on an object whose configuration could not
\* be read, so that only enable is set, and nothing was started.
C7_Witness ==
    /\ init_failed
    /\ DOMAIN self = {"enable"}
    /\ lastCall.hook = "on_enable"
    /\ threads = <<>>

\* C8 (as claimed): once an on_disable that followed the start of a server
\* thread has returned, every server that thread has created or is serving
\* has been told to exit.
C8_DisableSignalsServer ==
    (lastCall.hook = "on_disable" /\ pc = "idle") =>
        \A t \in ThreadIds :
            threads[t].pc \in {"created", "serving"} => threads[t].should_exit

Attempted == [i \in 1..Len(lastCall.attempts) |-> lastCall.attempts[i].admin]

TipDue ==
    /\ lastCall.hook = "on_enable"
    /\ HasAttr(self, "enable") /\ self.enable
    /\ lastCall.bot
    /\ self.command_tip # <<>>

C10_SingleServerSignalled ==
    /\ Cardinality({t \in ThreadIds : threads[t].pc \in {"serving", "closing"}}) <= 1
    /\ (pc = "disable_set" /\ PortHeld) => threads[self.server].pc = "serving"

====
